---- MODULE Spec2Model ----
(***************************************************************************)
(* Model of src/simplex.py: the tabular simplex solver `Simplex`.          *)
(*                                                                         *)
(* Numbers.  The program computes in IEEE doubles.  The model computes in  *)
(* exact rationals <<num, den>> (den > 0, lowest terms); +infinity, which  *)
(* the ratio test uses, is <<1, 0>>.  Rounding is therefore not modelled:  *)
(* every statement below is about the exact-arithmetic run of the code.    *)
(*                                                                         *)
(* Optional values.  Python's None is the empty tuple <<>>, and a present  *)
(* value x is the one-element tuple <<x>>.                                 *)
(***************************************************************************)
EXTENDS Integers, Sequences, FiniteSets, TLC

VARIABLES
    c,          \* self.c          objective coefficients, 0-indexed
    A,          \* self.A          constraint matrix, 0-indexed rows/cols
    b,          \* self.b          right-hand sides
    max_iters,  \* self.max_iters
    tableau,    \* self.tableau    (m+1) x (n+1) matrix of rationals
    iteration,  \* local `iteration` of solve()
    pc,         \* position of solve(): "loop", "returned" or "raised"
    ret_solution, \* 2nd component of solve()'s result: None or <<list>>
    ret_obj,    \* 3rd component of solve()'s result: None or <<value>>
    warned,     \* "Warning: Maximum iterations reached!" was printed
    pivots      \* history: number of pivots applied to self.tableau

vars == <<c, A, b, max_iters, tableau, iteration, pc, ret_solution, ret_obj,
          warned, pivots>>

----------------------------------------------------------------------------
(* Bounds of the checked inputs. *)

\* max_iters ranges over 0..MaxIters in the enumerated inputs
MaxIters == 2

\* entries of b range over -1..MaxRhs in the enumerated inputs
MaxRhs == 1

\* default of the max_iters parameter
DefaultMaxIters == 1000

\* values of the entries of A and of c in the enumerated inputs
AVals == {-1, 0, 1, 2}
CVals == {-2, 0, 1, 2}

\* (m, n) of the enumerated inputs
Shapes == {<<1, 1>>, <<1, 2>>, <<2, 1>>, <<2, 2>>}

\* (m, n) of the inputs of the fair specification
ThinShapes == {<<1, 1>>, <<1, 2>>, <<2, 1>>}

----------------------------------------------------------------------------
(* Exact rational arithmetic standing for float64 arithmetic. *)

None == <<>>

Abs(x) == IF x < 0 THEN -x ELSE x

\* The arithmetic kernel is written as functions, so that an argument is
\* evaluated once, when the function is applied.
GCD[x \in Nat, y \in Nat] == IF y = 0 THEN x ELSE GCD[y, x % y]

\* the rational p/q (q # 0) in lowest terms with positive denominator
RatOf[p \in Int, q \in Int] ==
    LET g == GCD[Abs(p), Abs(q)]
        s == IF (p < 0) = (q < 0) THEN 1 ELSE -1
    IN  <<s * (Abs(p) \div g), Abs(q) \div g>>

Rat(p, q) == RatOf[p, q]

\* np.array(..., dtype=float) applied to an integer entry
Float(i) == <<i, 1>>

Zero == Float(0)
One == Float(1)
Inf == <<1, 0>>

Lt(x, y) == x[1] * y[2] < y[1] * x[2]
Le(x, y) == x[1] * y[2] <= y[1] * x[2]
Gt0(x) == x[1] > 0
Neg(x) == <<-x[1], x[2]>>
RAbs(x) == <<Abs(x[1]), x[2]>>
Sub(x, y) == Rat(x[1] * y[2] - y[1] * x[2], x[2] * y[2])
Mul(x, y) == Rat(x[1] * y[1], x[2] * y[2])
Div(x, y) == Rat(x[1] * y[2], x[2] * y[1])

\* np.abs(x) > 1e-10.  Every denominator the model can hold is below 2^31,
\* hence below 10^10, so a non-zero rational has magnitude above 1e-10.
AbsGtTol(x) == x[1] # 0

\* np.abs(x - 1.0) < 1e-10; for the same reason this is x = 1.
NearOne(x) == Sub(x, One)[1] = 0

----------------------------------------------------------------------------
(* Tableau shape and construction. *)

NumConstraints(t) == Cardinality(DOMAIN t) - 1
NumVars(t) == Cardinality(DOMAIN t[0]) - 1

BuildTableau(cc, AA, bb) ==
    LET m == Cardinality(DOMAIN AA)
        n == Cardinality(DOMAIN cc)
    IN  [i \in 0..m |->
            [j \in 0..n |->
                IF i < m
                THEN IF j < n THEN Float(AA[i][j]) ELSE Float(bb[i])
                ELSE IF j < n THEN Float(cc[j]) ELSE Float(0)]]

\* tableau[-1, :-1]
ObjRow(t) == [j \in 0..(NumVars(t) - 1) |-> t[NumConstraints(t)][j]]

ContinueAll(t) == \A j \in DOMAIN ObjRow(t) : Gt0(ObjRow(t)[j])

\* _continue: np.any(obj_row > 0)
Continue(t) == \E j \in DOMAIN ObjRow(t) : Gt0(ObjRow(t)[j])

----------------------------------------------------------------------------
(* _find_pivot *)

\* v re-indexed from 0, as a numpy array is
ZeroIdx(seq) == [k \in 0..(Len(seq) - 1) |-> seq[k + 1]]

\* np.where(row > 0)[0] scanned from index j on: ascending indices
RECURSIVE PositiveFrom(_, _)
PositiveFrom(row, j) ==
    IF j \notin DOMAIN row
    THEN <<>>
    ELSE (IF Gt0(row[j]) THEN <<j>> ELSE <<>>) \o PositiveFrom(row, j + 1)

PositiveIndices(row) == ZeroIdx(PositiveFrom(row, 0))

ArgMinLast(v) ==
    CHOOSE i \in DOMAIN v :
        /\ \A k \in DOMAIN v : Le(v[i], v[k])
        /\ \A k \in DOMAIN v : (Le(v[k], v[i]) => k <= i)

\* np.argmin: one left-to-right scan that keeps the first minimum
ArgMin(v) ==
    LET scan[i \in Nat, best \in Nat] ==
            IF i \notin DOMAIN v
            THEN best
            ELSE scan[i + 1, IF Lt(v[i], v[best]) THEN i ELSE best]
    IN  scan[1, 0]

\* np.argmax: one left-to-right scan that keeps the first maximum
ArgMax(v) ==
    LET scan[i \in Nat, best \in Nat] ==
            IF i \notin DOMAIN v
            THEN best
            ELSE scan[i + 1, IF Lt(v[best], v[i]) THEN i ELSE best]
    IN  scan[1, 0]

\* pivot_col = positive_indices[np.argmin(positive_values)]
PivotCol(t) ==
    LET positive_indices == PositiveIndices(ObjRow(t))
        positive_values ==
            [k \in DOMAIN positive_indices |-> ObjRow(t)[positive_indices[k]]]
    IN  positive_indices[ArgMin(positive_values)]

RatiosNonZero(t, pivot_col) ==
    [i \in 0..(NumConstraints(t) - 1) |->
        IF t[i][pivot_col][1] # 0
        THEN Div(t[i][NumVars(t)], t[i][pivot_col])
        ELSE Inf]

\* ratios = np.where(col > 0, rhs / col, np.inf)
Ratios(t, pivot_col) ==
    [i \in 0..(NumConstraints(t) - 1) |->
        IF Gt0(t[i][pivot_col])
        THEN Div(t[i][NumVars(t)], t[i][pivot_col])
        ELSE Inf]

\* <<None, None>>: optimal; <<pivot_col, None>>: unbounded;
\* <<pivot_row, pivot_col>> otherwise
FindPivot(t) ==
    IF ~ (\E j \in DOMAIN ObjRow(t) : Gt0(ObjRow(t)[j]))
    THEN <<None, None>>
    ELSE LET leaving[pivot_col \in DOMAIN ObjRow(t)] ==
                 LET ratios == Ratios(t, pivot_col)
                 IN  IF \A i \in DOMAIN ratios : ratios[i] = Inf
                     THEN <<<<pivot_col>>, None>>
                     ELSE <<<<ArgMin(ratios)>>, <<pivot_col>>>>
         IN  leaving[PivotCol(t)]

----------------------------------------------------------------------------
(* _pivot *)

\* _pivot unpacks _find_pivot's result as (pivot_row, pivot_col).  With
\* pivot_col = None, tableau[pivot_row] fails with IndexError when the number
\* in pivot_row is no row index, and otherwise tableau[pivot_row, None] has
\* shape (1, n+1) and the in-place division fails with ValueError.  Either
\* way the statement on line 66 raises before the tableau is written.
PivotRaises(t) == FindPivot(t)[2] = None

PivotAdd(t) ==
    LET eliminate[pivot_row \in DOMAIN t, pivot_col \in DOMAIN t[0]] ==
            LET normalized ==
                    [j \in DOMAIN t[pivot_row] |->
                        Div(t[pivot_row][j], t[pivot_row][pivot_col])]
            IN  [i \in DOMAIN t |->
                    IF i = pivot_row
                    THEN normalized
                    ELSE [j \in DOMAIN t[i] |->
                            Sub(t[i][j],
                                Neg(Mul(t[i][pivot_col], normalized[j])))]]
    IN  eliminate[FindPivot(t)[1][1], FindPivot(t)[2][1]]

\* the tableau after _pivot, when it does not raise
Pivot(t) ==
    LET eliminate[pivot_row \in DOMAIN t, pivot_col \in DOMAIN t[0]] ==
            LET normalized ==
                    [j \in DOMAIN t[pivot_row] |->
                        Div(t[pivot_row][j], t[pivot_row][pivot_col])]
            IN  [i \in DOMAIN t |->
                    IF i = pivot_row
                    THEN normalized
                    ELSE [j \in DOMAIN t[i] |->
                            Sub(t[i][j], Mul(t[i][pivot_col], normalized[j]))]]
    IN  eliminate[FindPivot(t)[1][1], FindPivot(t)[2][1]]

----------------------------------------------------------------------------
(* _is_pivot_col, _primal_solution, _objective_value *)

\* col is a whole tableau column, objective row included
IsPivotCol(col) ==
    LET m == Cardinality(DOMAIN col) - 1
        constraint_part == [i \in 0..(m - 1) |-> col[i]]
        nonzero_count ==
            Cardinality({i \in DOMAIN constraint_part :
                            AbsGtTol(constraint_part[i])})
    IN  IF nonzero_count # 1
        THEN FALSE
        ELSE LET nonzero_idx ==
                     ArgMax([i \in DOMAIN constraint_part |->
                                RAbs(constraint_part[i])])
             IN  NearOne(constraint_part[nonzero_idx])

Column(t, j) == [i \in DOMAIN t |-> t[i][j]]

\* the (j, value) pairs appended for columns j, j+1, ..., num_vars - 1
RECURSIVE PrimalFrom(_, _)
PrimalFrom(t, j) ==
    IF j >= NumVars(t)
    THEN <<>>
    ELSE LET col == Column(t, j)
             pivot_row == ArgMax([i \in DOMAIN col |-> RAbs(col[i])])
         IN  (IF IsPivotCol(col)
              THEN <<<<j, t[pivot_row][NumVars(t)]>>>>
              ELSE <<>>) \o PrimalFrom(t, j + 1)

PrimalSolution(t) == PrimalFrom(t, 0)

ObjectiveValueNoNeg(t) == t[NumConstraints(t)][NumVars(t)]

\* -tableau[-1, -1]
ObjectiveValue(t) == Neg(t[NumConstraints(t)][NumVars(t)])

----------------------------------------------------------------------------
(* Inputs *)

Vec(seq) == ZeroIdx(seq)
Mat(rows) == [i \in 0..(Len(rows) - 1) |-> ZeroIdx(rows[i + 1])]

\* the example of the module docstring, with the default max_iters
ExampleInput ==
    [c |-> Vec(<<300, 250, 450>>),
     A |-> Mat(<<<<15, 20, 25>>, <<35, 60, 60>>, <<20, 30, 25>>, <<0, 250, 0>>>>),
     b |-> Vec(<<1200, 3000, 1500, 500>>),
     max_iters |-> DefaultMaxIters]

\* c = [1], A = [[-1]], b = [5]
UnboundedInput ==
    [c |-> Vec(<<1>>), A |-> Mat(<<<<-1>>>>), b |-> Vec(<<5>>),
     max_iters |-> DefaultMaxIters]

\* c = [-1], A = [[1]], b = [5]
TrivialInput ==
    [c |-> Vec(<<-1>>), A |-> Mat(<<<<1>>>>), b |-> Vec(<<5>>),
     max_iters |-> DefaultMaxIters]

NamedInputs == {ExampleInput, UnboundedInput, TrivialInput}

InputsOfShapes(shapes) ==
    UNION {
        [c : [0..(sh[2] - 1) -> CVals],
         A : [0..(sh[1] - 1) -> [0..(sh[2] - 1) -> AVals]],
         b : [0..(sh[1] - 1) -> -1..MaxRhs],
         max_iters : 0..MaxIters] : sh \in shapes}

EnumeratedInputs == InputsOfShapes(Shapes)

----------------------------------------------------------------------------
(* __init__ and solve *)

\* state after Simplex(c, A, b, max_iters=...) and entry into solve()
InitFrom(inputs) ==
    /\ \E inp \in inputs :
        /\ c = inp.c
        /\ A = inp.A
        /\ b = inp.b
        /\ max_iters = inp.max_iters
        /\ tableau = BuildTableau(inp.c, inp.A, inp.b)
    /\ iteration = 0
    /\ pc = "loop"
    /\ ret_solution = None
    /\ ret_obj = None
    /\ warned = FALSE
    /\ pivots = 0

Init == InitFrom(NamedInputs \cup EnumeratedInputs)

InitThin == InitFrom(NamedInputs \cup InputsOfShapes(ThinShapes))

LoopGuardInclusive == Continue(tableau) /\ iteration <= max_iters

\* while self._continue(self.tableau) and iteration < self.max_iters
LoopGuard == Continue(tableau) /\ iteration < max_iters

\* one pass through the body of the while loop
SolveIterate ==
    /\ pc = "loop"
    /\ LoopGuard
    /\ LET found == FindPivot(tableau)
           pivot_row == found[1]
       IN  IF pivot_row = None
           THEN \* print("Problem is unbounded!"); return tableau, None, None
                /\ pc' = "returned"
                /\ ret_solution' = None
                /\ ret_obj' = None
                /\ UNCHANGED <<tableau, iteration, pivots>>
           ELSE IF PivotRaises(tableau)
           THEN \* self._pivot raises; solve() propagates the exception
                /\ pc' = "raised"
                /\ UNCHANGED <<tableau, iteration, pivots, ret_solution, ret_obj>>
           ELSE /\ tableau' = Pivot(tableau)
                /\ iteration' = iteration + 1
                /\ pivots' = pivots + 1
                /\ UNCHANGED <<pc, ret_solution, ret_obj>>
    /\ UNCHANGED <<c, A, b, max_iters, warned>>

\* loop exit: warning, extraction, return
SolveReturn ==
    /\ pc = "loop"
    /\ ~ LoopGuard
    /\ warned' = (iteration >= max_iters)
    /\ ret_solution' = <<PrimalSolution(tableau)>>
    /\ ret_obj' = <<ObjectiveValue(tableau)>>
    /\ pc' = "returned"
    /\ UNCHANGED <<c, A, b, max_iters, tableau, iteration, pivots>>

Next == SolveIterate \/ SolveReturn

Spec == Init /\ [][Next]_vars

\* solve() is straight-line sequential code: a pending step is always taken
FairSpec == InitThin /\ [][Next]_vars /\ WF_vars(Next)

\* the driver state of the run, as the result reports it
Status ==
    IF pc = "loop" THEN "RUNNING"
    ELSE IF pc = "raised" THEN "RAISED"
    ELSE IF ret_solution = None THEN "UNBOUNDED"
    ELSE IF warned THEN "ITERATION_LIMIT"
    ELSE "OPTIMAL"

TypeOK ==
    /\ pc \in {"loop", "returned", "raised"}
    /\ iteration \in Nat
    /\ warned \in BOOLEAN

----------------------------------------------------------------------------
(* Vocabulary of the properties, stated on the tableau directly. *)

M == NumConstraints(tableau)
N == NumVars(tableau)
Rows == 0..(M - 1)
Cols == 0..(N - 1)

BNonNeg == \A i \in DOMAIN b : b[i] >= 0
ObjEntry(j) == tableau[M][j]
Rhs(i) == tableau[i][N]
HasPositiveObj == \E j \in Cols : ObjEntry(j)[1] > 0
Returned == pc = "returned" /\ ret_solution # None

\* column j has a strictly positive objective entry and none in a constraint row
UnboundedColumn(j) ==
    /\ ObjEntry(j)[1] > 0
    /\ \A i \in Rows : tableau[i][j][1] <= 0

\* the loop body ran on the current tableau and ended the run
EndedInLoopBody == pc # "loop" /\ HasPositiveObj /\ iteration < max_iters

----------------------------------------------------------------------------
(* C1: whenever pivot selection signals unboundedness, solve() stops in    *)
(* state UNBOUNDED without pivoting or extracting, and returns             *)
(* (tableau, None, None).                                                  *)
C1_UnboundedReturnsNone ==
    (EndedInLoopBody /\ FindPivot(tableau)[2] = None)
        => /\ pc = "returned"
           /\ Status = "UNBOUNDED"
           /\ ret_solution = None
           /\ ret_obj = None

(* C2: when c has no strictly positive entry, solve() executes zero        *)
(* pivots, returns objective value 0 and returns an empty solution list.   *)
C2_NoPositiveCostEmptySolution ==
    (pc # "loop" /\ \A j \in DOMAIN c : c[j] <= 0)
        => /\ pc = "returned"
           /\ pivots = 0
           /\ ret_obj = <<Zero>>
           /\ ret_solution = <<<<>>>>

(* C3: feasibility invariant: with all entries of b >= 0, every RHS entry  *)
(* of every constraint row is >= 0 in every tableau of the run.            *)
C3_Feasible ==
    BNonNeg => \A i \in Rows : Rhs(i)[1] >= 0

C3_Witness ==
    /\ BNonNeg
    /\ pivots >= 2
    /\ \E i \in Rows : Rhs(i) # Float(b[i])
    /\ \E i \in Rows : Rhs(i) = Zero

(* C4: monotonicity: with all entries of b >= 0, the objective value       *)
(* -tableau[m][n] after a pivot is >= its value before that pivot.         *)
C4_Monotone ==
    [][(BNonNeg /\ tableau' # tableau)
          => Le(Neg(tableau[M][N]), Neg(tableau'[M][N]))]_vars

C4_Witness ==
    /\ BNonNeg
    /\ pivots >= 2
    /\ Gt0(Neg(tableau[M][N]))

(* C5: the result is flagged ITERATION_LIMIT only if the counter reached   *)
(* max_iters while the objective row still had a strictly positive entry;  *)
(* a run whose tableau has become optimal ends in OPTIMAL, unflagged.      *)
(* Stated for the inputs that meet the precondition b >= 0.                *)
C5_LimitOnlyWhileRunning ==
    (BNonNeg /\ Returned)
        => /\ (Status = "ITERATION_LIMIT"
                 => (iteration = max_iters /\ HasPositiveObj))
           /\ (~ HasPositiveObj => Status = "OPTIMAL")

(* C6: whenever solve() reports OPTIMAL, the objective row of the returned *)
(* tableau has no strictly positive entry in columns 0..n-1.               *)
C6_OptimalHasNoPositiveObj ==
    Status = "OPTIMAL" => \A j \in Cols : ObjEntry(j)[1] <= 0

C6_Witness ==
    /\ BNonNeg
    /\ Status = "OPTIMAL"
    /\ pivots >= 1
    /\ \E j \in Cols : ObjEntry(j)[1] < 0

----------------------------------------------------------------------------
(* The pivot rules of C7, stated without reference to _find_pivot. *)

\* col is the lowest-index column whose objective entry is the smallest
\* strictly positive one
IsEntering(col) ==
    /\ ObjEntry(col)[1] > 0
    /\ \A j \in Cols : ObjEntry(j)[1] > 0 => Le(ObjEntry(col), ObjEntry(j))
    /\ \A j \in Cols : (j < col /\ ObjEntry(j)[1] > 0) => ObjEntry(j) # ObjEntry(col)

RatioOf(i, col) == Div(Rhs(i), tableau[i][col])

\* row is the lowest-index constraint row attaining the minimum of RHS/entry
\* over the rows whose entry in col is strictly positive
IsLeaving(row, col) ==
    /\ tableau[row][col][1] > 0
    /\ \A i \in Rows :
          tableau[i][col][1] > 0 => Le(RatioOf(row, col), RatioOf(i, col))
    /\ \A i \in Rows :
          (i < row /\ tableau[i][col][1] > 0) => RatioOf(i, col) # RatioOf(row, col)

(* C7: on a tableau with a strictly positive objective entry and a bounded *)
(* entering column, pivot selection returns (r, c): c the lowest-index     *)
(* column with the smallest strictly positive objective entry, r the       *)
(* lowest-index row attaining the minimum ratio over rows with a strictly  *)
(* positive entry in column c.                                             *)
C7_TieBreak ==
    \A col \in Cols :
        (IsEntering(col) /\ \E i \in Rows : tableau[i][col][1] > 0)
            => \E row \in Rows :
                  /\ IsLeaving(row, col)
                  /\ FindPivot(tableau) = <<<<row>>, <<col>>>>

\* the first pivot was selected on an input with a tie in the objective row
\* and a tie in the ratio test, and it was applied at row 0, column 0
C7_Witness ==
    /\ BNonNeg
    /\ pivots = 1
    /\ DOMAIN c = 0..1
    /\ DOMAIN b = 0..1
    /\ c[0] > 0
    /\ c[1] = c[0]
    /\ A[0][0] > 0
    /\ A[1][0] > 0
    /\ b[0] * A[1][0] = b[1] * A[0][0]
    /\ tableau[0][0] = One
    /\ tableau[1][0] = Zero
    /\ ObjEntry(0) = Zero

(* C8: on the docstring example with the default cap, solve() ends in      *)
(* OPTIMAL (not UNBOUNDED, not ITERATION_LIMIT) with a finite objective    *)
(* value >= 0.                                                             *)
IsExample ==
    /\ c = ExampleInput.c
    /\ A = ExampleInput.A
    /\ b = ExampleInput.b
    /\ max_iters = DefaultMaxIters

C8_ExampleOptimal ==
    (IsExample /\ pc # "loop")
        => /\ Status = "OPTIMAL"
           /\ ret_obj # None
           /\ ret_obj[1][2] # 0
           /\ Le(Zero, ret_obj[1])

C8_Witness ==
    /\ IsExample
    /\ pc = "returned"
    /\ pivots = 3
    /\ ret_obj = <<Float(23060)>>

(* C9: every pair (j, value) of the returned solution list has column j    *)
(* basic on the constraint rows and value = tableau[i][n], i < m the row   *)
(* of column j's unit entry; never the objective row's entry.              *)
(* Stated for the inputs that meet the precondition b >= 0.                *)
C9_ValueIsBasicRowRhs ==
    (BNonNeg /\ Returned)
        => \A k \in 1..Len(ret_solution[1]) :
              LET j == ret_solution[1][k][1]
                  value == ret_solution[1][k][2]
              IN  /\ IsPivotCol(Column(tableau, j))
                  /\ \E i \in Rows : tableau[i][j] = One /\ value = Rhs(i)

(* C10: every run of solve() terminates; the pivot counter increases by    *)
(* exactly 1 per applied pivot and never exceeds max_iters, so at most     *)
(* max_iters pivots are applied.                                           *)
C10_BoundedTermination ==
    /\ [](pivots = iteration /\ iteration <= max_iters /\ pivots <= max_iters)
    /\ [][tableau' # tableau => iteration' = iteration + 1]_vars
    /\ <>(pc # "loop")

\* the cap stopped a run whose tableau was still improvable
C10_Witness ==
    /\ pc = "returned"
    /\ max_iters >= 1
    /\ pivots = max_iters
    /\ HasPositiveObj

====
